---- MODULE Spec2Model ----
(***************************************************************************)
(* Model of the multisig program of programs/multisig/src/lib.rs.          *)
(*                                                                         *)
(* State: the Multisig accounts and the Transaction accounts the program   *)
(* owns, plus an observation of the last instruction processed (its        *)
(* arguments, its result, the cross-program invocations it made).          *)
(*                                                                         *)
(* Each instruction is one atomic step.  The handlers work on the          *)
(* deserialized copy of each account that the #[program] entry point       *)
(* builds from the Accounts struct; the copy is written back to the        *)
(* account only when the handler returns Ok, and the runtime discards      *)
(* every account write of an instruction that returns Err.  A handler      *)
(* that returns Err therefore leaves multisigs and transactions as they    *)
(* were, also when it assigned to ctx.accounts before returning.           *)
(***************************************************************************)
EXTENDS Naturals, Sequences, FiniteSets

\* ---------------------------------------------------------------- bounds
MaxOwners == 2      \* longest owners vector given to create_multisig
MaxSteps == 2       \* longest pid / accs / data vector given to create_transaction
MaxAttempts == 2    \* approve calls per transaction that reach invoke_signed

\* Pubkeys of the callers (proposer, owner) and of the members of owners.
Identities == {"A", "B"}
\* Addresses of the Multisig accounts and of the Transaction accounts.
MultisigKeys == {"G1", "G2"}
TransactionKeys == {"T1", "T2"}
\* Values of the nonce argument (u8).
Nonces == {255}
\* Values of the threshold argument (u64).
Thresholds == 0..(MaxOwners + 1)
\* Target programs and instruction data of the steps.
ProgramIds == {"P1"}
Payloads == {<<1>>}

\* Sequences over S of length 0..n.
RECURSIVE SeqUpTo(_, _)
SeqUpTo(S, n) ==
    IF n = 0 THEN {<<>>}
    ELSE LET shorter == SeqUpTo(S, n - 1)
         IN  shorter \cup {Append(s, x) : s \in {q \in shorter : Len(q) = n - 1}, x \in S}

\* The program address derived from the seeds [multisig key, nonce]; a Pubkey,
\* distinct for distinct seeds.
ProgramAddress(multisigKey, nonce) ==
    "pda:" \o multisigKey \o (IF nonce = 255 THEN ":255" ELSE ":other")

SignerKeys == {ProgramAddress(g, n) : g \in MultisigKeys, n \in Nonces}

\* struct TransactionAccount
TransactionAccount(pubkey, is_signer, is_writable) ==
    [pubkey |-> pubkey, is_signer |-> is_signer, is_writable |-> is_writable]

\* The account lists a step may carry.
AccountLists ==
    { <<TransactionAccount("A", TRUE, FALSE),
        TransactionAccount(ProgramAddress("G1", 255), FALSE, TRUE),
        TransactionAccount("B", FALSE, TRUE),
        TransactionAccount(ProgramAddress("G2", 255), FALSE, FALSE)>> }

\* The vectors given as arguments.
OwnerVectors == SeqUpTo(Identities, MaxOwners)
PidVectors == SeqUpTo(ProgramIds, MaxSteps)
AccsVectors == SeqUpTo(AccountLists, MaxSteps)
DataVectors == SeqUpTo(Payloads, MaxSteps)

\* ----------------------------------------------------------------- state
VARIABLES
    multisigs,      \* MultisigKeys -> Multisig account
    transactions,   \* TransactionKeys -> Transaction account
    attempts,       \* TransactionKeys -> approve calls that reached the invoke_signed loop
    completed,      \* TransactionKeys -> approve calls in which every invoke_signed returned Ok
    calledBy,       \* TransactionKeys -> the owners that proposed it or called approve on it
    approvedBy,     \* TransactionKeys -> the keys that proposed it or whose approve returned Ok
    lastCall        \* the instruction processed last

vars == <<multisigs, transactions, attempts, completed, calledBy, approvedBy, lastCall>>

\* An account the program has not initialized: zeroed data.
EmptyMultisig ==
    [initialized |-> FALSE, owners |-> <<>>, threshold |-> 0, nonce |-> 0]

EmptyTransaction ==
    [initialized |-> FALSE, multisig |-> "none", program_id |-> <<>>, accounts |-> <<>>,
     data |-> <<>>, signers |-> <<>>, did_execute |-> FALSE]

NoCall ==
    [op |-> "none", multisig |-> "none", transaction |-> "none", caller |-> "none",
     sameLen |-> TRUE, res |-> "none", invoked |-> <<>>, again |-> FALSE]

Init ==
    /\ multisigs = [g \in MultisigKeys |-> EmptyMultisig]
    /\ transactions = [t \in TransactionKeys |-> EmptyTransaction]
    /\ attempts = [t \in TransactionKeys |-> 0]
    /\ completed = [t \in TransactionKeys |-> 0]
    /\ calledBy = [t \in TransactionKeys |-> {}]
    /\ approvedBy = [t \in TransactionKeys |-> {}]
    /\ lastCall = NoCall

\* The record of a call: the instruction, the accounts and the caller given to
\* it, whether its three vectors had one length, its result and the invocations
\* it made; again tells that the call before it was the same call.
Call(op, g, t, caller, sameLen, res, invoked) ==
    LET c == [op |-> op, multisig |-> g, transaction |-> t, caller |-> caller,
              sameLen |-> sameLen, res |-> res, invoked |-> invoked, again |-> FALSE]
    IN  [c EXCEPT !.again = (c = [lastCall EXCEPT !.again = FALSE])]

\* An account written back whatever the handler returned.
PersistAlways(res, before, after) == after

\* What an account holds after a handler returned res: the copy the handler
\* worked on when it returned Ok, the account as it was otherwise.
Persist(res, before, after) == IF res = "Ok" THEN after ELSE before

\* --------------------------------------------------------------- helpers
\* A position whose closure compares with != : the first index not holding key.
PositionOfOther(owners, key) ==
    IF \E i \in 1..Len(owners) : owners[i] # key
    THEN CHOOSE i \in 1..Len(owners) :
            /\ owners[i] # key
            /\ \A j \in 1..(i - 1) : owners[j] = key
    ELSE 0

\* owners.iter().position(|a| a == key): the first index holding key, 0 for None.
Position(owners, key) ==
    IF \E i \in 1..Len(owners) : owners[i] = key
    THEN CHOOSE i \in 1..Len(owners) :
            /\ owners[i] = key
            /\ \A j \in 1..(i - 1) : owners[j] # key
    ELSE 0

\* A count that leaves the filter out: every entry counts.
SigCountUnfiltered(signers) == Len(signers)

\* signers.iter().filter(|&did_sign| *did_sign).count()
SigCount(signers) == Cardinality({i \in 1..Len(signers) : signers[i]})

\* A length check that leaves data out.
LengthsDifferPidAccs(pid, accs, data) == Len(pid) # Len(accs)

\* pid.len() != accs.len() || pid.len() != data.len()
LengthsDiffer(pid, accs, data) == Len(pid) # Len(accs) \/ Len(pid) # Len(data)

\* Signers without the proposer's own bit.
InitialSignersAllFalse(n, owner_index) == [i \in 1..n |-> FALSE]

\* A signers vector grown only as far as the proposer's index.
InitialSignersUnresized(n, owner_index) == [i \in 1..owner_index |-> i = owner_index]

\* Vec::new(), resize(owners.len(), false), signers[owner_index] = true
InitialSigners(n, owner_index) == [i \in 1..n |-> i = owner_index]

\* An approval that flips the bit.
ToggleSigner(signers, owner_index) == [signers EXCEPT ![owner_index] = ~@]

\* An approval that leaves the bit as it was.
SetSignerDropped(signers, owner_index) == signers

\* signers[owner_index] = true
SetSigner(signers, owner_index) == [signers EXCEPT ![owner_index] = TRUE]

\* A comparison that is off by one.
NotEnoughSignersOffByOne(sig_count, threshold) == sig_count + 1 < threshold

\* sig_count < threshold
NotEnoughSigners(sig_count, threshold) == sig_count < threshold

\* An approve without the did_execute check.
HasExecutedUnchecked(tx) == FALSE

\* ctx.accounts.transaction.did_execute
HasExecuted(tx) == tx.did_execute

\* From<TransactionAccount> for AccountMeta: new_readonly(pubkey, is_signer) when
\* is_writable is false, new(pubkey, is_signer) when it is true.
ToAccountMeta(account) ==
    IF account.is_writable
    THEN [pubkey |-> account.pubkey, is_signer |-> account.is_signer, is_writable |-> TRUE]
    ELSE [pubkey |-> account.pubkey, is_signer |-> account.is_signer, is_writable |-> FALSE]

\* The instructions of tx in the reverse of the stored order.
ToInstructionsReversed(tx) ==
    [i \in 1..Len(tx.program_id) |->
        [program_id |-> tx.program_id[Len(tx.program_id) + 1 - i],
         accounts |-> [k \in 1..Len(tx.accounts[Len(tx.program_id) + 1 - i]) |->
                          [pubkey |-> tx.accounts[Len(tx.program_id) + 1 - i][k].pubkey,
                           is_signer |-> tx.accounts[Len(tx.program_id) + 1 - i][k].is_signer,
                           is_writable |-> tx.accounts[Len(tx.program_id) + 1 - i][k].is_writable]],
         data |-> tx.data[Len(tx.program_id) + 1 - i]]]

\* From<&Transaction> for Vec<Instruction>: one instruction per program_id entry.
ToInstructions(tx) ==
    [i \in 1..Len(tx.program_id) |->
        [program_id |-> tx.program_id[i],
         accounts |-> [k \in 1..Len(tx.accounts[i]) |-> ToAccountMeta(tx.accounts[i][k])],
         data |-> tx.data[i]]]

\* Every account of every instruction is made a signer.
MarkSignerEvery(ixs, signerKey) ==
    [i \in 1..Len(ixs) |->
        [ixs[i] EXCEPT !.accounts =
            [k \in 1..Len(ixs[i].accounts) |->
                [ixs[i].accounts[k] EXCEPT !.is_signer = TRUE]]]]

\* Every account of every instruction whose pubkey is the multisig signer is
\* made a signer.
MarkSigner(ixs, signerKey) ==
    [i \in 1..Len(ixs) |->
        [ixs[i] EXCEPT !.accounts =
            [k \in 1..Len(ixs[i].accounts) |->
                IF ixs[i].accounts[k].pubkey = signerKey
                THEN [ixs[i].accounts[k] EXCEPT !.is_signer = TRUE]
                ELSE ixs[i].accounts[k]]]]

\* A loop that goes on after a failed invocation.
InvokeAllContinuing(ixs, failAt) ==
    IF failAt \in 1..Len(ixs)
    THEN [ok |-> FALSE, invoked |-> ixs]
    ELSE [ok |-> TRUE, invoked |-> ixs]

\* for ix in ixs.iter() { invoke_signed(ix, ..)?; }: the invocations made when
\* the invoked program fails the failAt-th one (none fails when failAt is not
\* an index of ixs), and whether the loop ran to its end.
InvokeAll(ixs, failAt) ==
    IF failAt \in 1..Len(ixs)
    THEN [ok |-> FALSE, invoked |-> SubSeq(ixs, 1, failAt)]
    ELSE [ok |-> TRUE, invoked |-> ixs]

\* -------------------------------------------------------------- handlers
\* fn create_multisig: the Multisig account the handler leaves.
create_multisig(owners, threshold, nonce) ==
    [res |-> "Ok",
     multisig |-> [initialized |-> TRUE, owners |-> owners, threshold |-> threshold,
                   nonce |-> nonce]]

\* A create_transaction that marks the transaction executed when the proposer
\* alone meets the threshold.
create_transactionExecuting(multisigKey, multisig, tx, proposer, pid, accs, data) ==
    IF Len(pid) # Len(accs) \/ Len(pid) # Len(data)
    THEN [res |-> "ParamLength", transaction |-> tx]
    ELSE IF \A i \in 1..Len(multisig.owners) : multisig.owners[i] # proposer
         THEN [res |-> "InvalidOwner", transaction |-> tx]
         ELSE [res |-> "Ok",
               transaction |->
                  [initialized |-> TRUE,
                   multisig |-> multisigKey,
                   program_id |-> pid,
                   accounts |-> accs,
                   data |-> data,
                   signers |-> [i \in 1..Len(multisig.owners) |->
                                  /\ multisig.owners[i] = proposer
                                  /\ \A j \in 1..(i - 1) : multisig.owners[j] # proposer],
                   did_execute |-> multisig.threshold <= 1]]

\* fn create_transaction: the result and the Transaction account the handler leaves.
create_transaction(multisigKey, multisig, tx, proposer, pid, accs, data) ==
    IF LengthsDiffer(pid, accs, data) THEN [res |-> "ParamLength", transaction |-> tx]
    ELSE LET owner_index == Position(multisig.owners, proposer)
         IN  IF owner_index = 0 THEN [res |-> "InvalidOwner", transaction |-> tx]
             ELSE [res |-> "Ok",
                   transaction |->
                      [initialized |-> TRUE,
                       multisig |-> multisigKey,
                       program_id |-> pid,
                       accounts |-> accs,
                       data |-> data,
                       signers |-> InitialSigners(Len(multisig.owners), owner_index),
                       did_execute |-> FALSE]]

\* fn approve: the result, the Transaction as the handler leaves its copy, the
\* invocations made, whether the invoke_signed loop was reached and whether it
\* ran to its end.
approve(multisig, tx, owner, multisig_signer, failAt) ==
    LET owner_index == Position(multisig.owners, owner)
        quiet(res, t) == [res |-> res, transaction |-> t, invoked |-> <<>>,
                          attempted |-> FALSE, done |-> FALSE]
    IN
    IF owner_index = 0 THEN quiet("InvalidOwner", tx)
    ELSE
    LET signed == [tx EXCEPT !.signers = SetSigner(tx.signers, owner_index)]
        sig_count == SigCount(signed.signers)
    IN
    IF NotEnoughSigners(sig_count, multisig.threshold) THEN quiet("Ok", signed)
    ELSE IF HasExecuted(signed) THEN quiet("AlreadyExecuted", signed)
    ELSE
    LET ixs == MarkSigner(ToInstructions(signed), multisig_signer)
        run == InvokeAll(ixs, failAt)
    IN
    IF ~run.ok
    THEN [res |-> "ExecutorError", transaction |-> signed, invoked |-> run.invoked,
          attempted |-> TRUE, done |-> FALSE]
    ELSE [res |-> "Ok", transaction |-> [signed EXCEPT !.did_execute = TRUE],
          invoked |-> run.invoked, attempted |-> TRUE, done |-> TRUE]

\* ------------------------------------------------- account validation
\* A CreateMultisig whose multisig lacks #[account(init)].
CreateMultisigAccountsOkNoInit(g) == TRUE

\* struct CreateMultisig: #[account(init)] multisig.
CreateMultisigAccountsOk(g) == ~multisigs[g].initialized

\* A CreateTransaction whose transaction lacks #[account(init)].
CreateTransactionAccountsOkNoInit(g, t) == multisigs[g].initialized

\* struct CreateTransaction: multisig, #[account(init)] transaction.
CreateTransactionAccountsOk(g, t) ==
    /\ multisigs[g].initialized
    /\ ~transactions[t].initialized

\* An Approve whose transaction lacks belongs_to = multisig.
ApproveAccountsOkNoBelongsTo(g, multisig_signer, t) ==
    /\ multisigs[g].initialized
    /\ transactions[t].initialized
    /\ multisig_signer = ProgramAddress(g, multisigs[g].nonce)

\* struct Approve: multisig, multisig_signer with the seeds [multisig key, nonce],
\* #[account(mut, belongs_to = multisig)] transaction.
ApproveAccountsOk(g, multisig_signer, t) ==
    /\ multisigs[g].initialized
    /\ transactions[t].initialized
    /\ multisig_signer = ProgramAddress(g, multisigs[g].nonce)
    /\ transactions[t].multisig = g

\* --------------------------------------------------------------- actions
CreateMultisig(g, owners, threshold, nonce) ==
    /\ IF CreateMultisigAccountsOk(g)
       THEN LET out == create_multisig(owners, threshold, nonce)
            IN  /\ multisigs' = [multisigs EXCEPT ![g] = Persist(out.res, @, out.multisig)]
                /\ lastCall' = Call("create_multisig", g, "none", "none", TRUE, out.res, <<>>)
       ELSE /\ multisigs' = multisigs
            /\ lastCall' = Call("create_multisig", g, "none", "none", TRUE, "AccountsError", <<>>)
    /\ UNCHANGED <<transactions, attempts, completed, calledBy, approvedBy>>

CreateTransaction(g, t, proposer, pid, accs, data) ==
    /\ LET sameLen == Len(pid) = Len(accs) /\ Len(accs) = Len(data) IN
       IF CreateTransactionAccountsOk(g, t)
       THEN LET out == create_transaction(g, multisigs[g], transactions[t], proposer,
                                          pid, accs, data)
            IN  /\ transactions' =
                      [transactions EXCEPT ![t] = Persist(out.res, @, out.transaction)]
                /\ calledBy' = [calledBy EXCEPT ![t] = IF out.res = "Ok" THEN {proposer} ELSE @]
                /\ approvedBy' = [approvedBy EXCEPT ![t] = IF out.res = "Ok" THEN {proposer} ELSE @]
                /\ lastCall' = Call("create_transaction", g, t, proposer, sameLen, out.res, <<>>)
       ELSE /\ UNCHANGED <<transactions, calledBy, approvedBy>>
            /\ lastCall' = Call("create_transaction", g, t, proposer, sameLen,
                                 "AccountsError", <<>>)
    /\ UNCHANGED <<multisigs, attempts, completed>>

Approve(g, multisig_signer, t, owner, failAt) ==
    /\ IF ApproveAccountsOk(g, multisig_signer, t)
       THEN LET out == approve(multisigs[g], transactions[t], owner, multisig_signer, failAt)
            IN  /\ out.attempted => attempts[t] < MaxAttempts
                /\ transactions' =
                      [transactions EXCEPT ![t] = Persist(out.res, @, out.transaction)]
                /\ attempts' = [attempts EXCEPT ![t] = IF out.attempted THEN @ + 1 ELSE @]
                /\ completed' = [completed EXCEPT ![t] = IF out.done THEN @ + 1 ELSE @]
                /\ calledBy' = [calledBy EXCEPT ![t] =
                                  IF \E i \in 1..Len(multisigs[g].owners) :
                                        multisigs[g].owners[i] = owner
                                  THEN @ \cup {owner} ELSE @]
                /\ approvedBy' = [approvedBy EXCEPT ![t] =
                                  IF out.res = "Ok" THEN @ \cup {owner} ELSE @]
                /\ lastCall' = Call("approve", g, t, owner, TRUE, out.res, out.invoked)
       ELSE /\ UNCHANGED <<transactions, attempts, completed, calledBy, approvedBy>>
            /\ lastCall' = Call("approve", g, t, owner, TRUE, "AccountsError", <<>>)
    /\ UNCHANGED multisigs

\* One instruction on the accounts MS, TS: any of the three, with any arguments.
Step(MS, TS) ==
    \/ \E g \in MS, owners \in OwnerVectors,
          threshold \in Thresholds, nonce \in Nonces :
            CreateMultisig(g, owners, threshold, nonce)
    \/ \E g \in MS, t \in TS, proposer \in Identities,
          pid \in PidVectors, accs \in AccsVectors, data \in DataVectors :
            CreateTransaction(g, t, proposer, pid, accs, data)
    \/ \E g \in MS, multisig_signer \in SignerKeys,
          t \in TS, owner \in Identities, failAt \in 0..MaxSteps :
            Approve(g, multisig_signer, t, owner, failAt)

\* One multisig with one transaction, every argument.
Next == Step({"G1"}, {"T1"})

Spec == Init /\ [][Next]_vars

\* The same instructions with the arguments drawn from the sets given: owners
\* from OV, threshold from TH, pid, accs and data from PV, AV and DV, and the
\* invocation the invoked program fails from FA.
StepOver(MS, TS, OV, TH, PV, AV, DV, FA) ==
    \/ \E g \in MS, owners \in OV, threshold \in TH, nonce \in Nonces :
            CreateMultisig(g, owners, threshold, nonce)
    \/ \E g \in MS, t \in TS, proposer \in Identities,
          pid \in PV, accs \in AV, data \in DV :
            CreateTransaction(g, t, proposer, pid, accs, data)
    \/ \E g \in MS, multisig_signer \in SignerKeys,
          t \in TS, owner \in Identities, failAt \in FA :
            Approve(g, multisig_signer, t, owner, failAt)

\* The owners vectors that hold at least one key and no key twice.
UniqueOwnerVectors ==
    {v \in OwnerVectors :
        /\ Len(v) >= 1
        /\ \A i, j \in 1..Len(v) : i # j => v[i] # v[j]}

\* One multisig with one transaction of one step and an invoked program that
\* never fails; every owner that can still change something by an approve call
\* makes it.
NextLive ==
    StepOver({"G1"}, {"T1"}, OwnerVectors, Thresholds,
             {<<p>> : p \in ProgramIds}, {<<a>> : a \in AccountLists},
             {<<d>> : d \in Payloads}, {0})

OwnerApproves(t, owner) ==
    /\ transactions[t].initialized
    /\ \E i \in 1..Len(multisigs[transactions[t].multisig].owners) :
          multisigs[transactions[t].multisig].owners[i] = owner
    /\ Approve(transactions[t].multisig,
               ProgramAddress(transactions[t].multisig,
                              multisigs[transactions[t].multisig].nonce),
               t, owner, 0)

SpecLive ==
    /\ Init
    /\ [][NextLive]_vars
    /\ \A owner \in Identities : WF_vars(OwnerApproves("T1", owner))

\* A data vector whose k-th payload is <<k>>, so that no two steps are alike.
StepPayloads == {[k \in 1..MaxSteps |-> <<k>>]}

\* One multisig with one transaction of MaxSteps steps, each with a program of
\* its own choice and a payload of its own; pid holds up to MaxSteps entries and
\* the invoked program fails any one invocation or none.

NextSteps ==
    StepOver({"G1"}, {"T1"}, UniqueOwnerVectors, 1..MaxOwners,
             SeqUpTo({"P1", "P2"}, MaxSteps),
             {v \in AccsVectors : Len(v) = MaxSteps},
             StepPayloads, 0..MaxSteps)

SpecSteps == Init /\ [][NextSteps]_vars

\* Two multisigs and two transactions of one step each; A owns both multisigs
\* when both hold two owners, B only those of two owners.
PairOwnerVectors == {<<"A">>, <<"A", "B">>}
PairThresholds == {1, 2}

NextPair ==
    StepOver(MultisigKeys, TransactionKeys, PairOwnerVectors, PairThresholds,
             {<<p>> : p \in ProgramIds}, {<<a>> : a \in AccountLists},
             {<<d>> : d \in Payloads}, {0})

SpecPair == Init /\ [][NextPair]_vars

\* ------------------------------------------------------------ properties
\* The transaction and the multisig of the last call, and the owners index that
\* the caller of the last call has in that multisig.
LastTx == transactions[lastCall.transaction]
LastMultisig == multisigs[lastCall.multisig]

IsOwner(owners, key) == \E i \in 1..Len(owners) : owners[i] = key

\* The signers of tx with the bit of every owners index that is the first to
\* hold key set.
WithApproval(tx, owners, key) ==
    [i \in 1..Len(tx.signers) |->
        \/ tx.signers[i]
        \/ (i <= Len(owners) /\ owners[i] = key /\ \A j \in 1..(i - 1) : owners[j] # key)]

TrueBits(signers) == {i \in 1..Len(signers) : signers[i]}

\* C1: threshold gate.  A transaction that has executed has at least threshold
\* true signers, threshold being that of its multisig; and an approve call
\* that invoked the executor did so with at least threshold true signers,
\* the caller's own included.
C1_ThresholdGate ==
    /\ \A t \in TransactionKeys :
          transactions[t].did_execute =>
             Cardinality(TrueBits(transactions[t].signers))
                >= multisigs[transactions[t].multisig].threshold
    /\ (lastCall.op = "approve" /\ lastCall.invoked # <<>>) =>
          Cardinality(TrueBits(WithApproval(LastTx, LastMultisig.owners, lastCall.caller)))
             >= LastMultisig.threshold

\* C1 witness: a transaction executed by the approve call that brought the
\* count of signers to a threshold of 2.
C1_Witness ==
    /\ lastCall.op = "approve" /\ lastCall.res = "Ok" /\ lastCall.invoked # <<>>
    /\ LastTx.did_execute
    /\ LastMultisig.threshold = 2
    /\ Cardinality(TrueBits(LastTx.signers)) = 2

\* C2 as claimed: for every transaction, at most one approve call ever reaches
\* the invocation of the executor with the transaction's instructions.
C2_InvokedAtMostOnce == \A t \in TransactionKeys : attempts[t] <= 1

\* C2 as amended: for every transaction, at most one approve call has the
\* executor accept the whole batch, that call is the one that sets
\* did_execute, and once did_execute is set no approve call reaches the
\* executor again; calls in which the executor failed may come before it.
C2_CompletedAtMostOnce ==
    [][\A t \in TransactionKeys :
          /\ completed'[t] <= 1
          /\ (completed'[t] = 1) = transactions'[t].did_execute
          /\ transactions[t].did_execute => attempts'[t] = attempts[t]]_vars

\* C2 witness: the executor failed in one approve call and accepted the batch
\* in a later one, after which a further approve call was made.
C2_Witness ==
    /\ lastCall.op = "approve" /\ lastCall.res = "AlreadyExecuted"
    /\ attempts[lastCall.transaction] = 2
    /\ completed[lastCall.transaction] = 1

\* C3: every initialized multisig has 0 < threshold <= len(owners), and a
\* create_multisig call given another threshold does not return Ok.
C3_ThresholdInRange ==
    /\ \A g \in MultisigKeys :
          multisigs[g].initialized =>
             (0 < multisigs[g].threshold /\ multisigs[g].threshold <= Len(multisigs[g].owners))
    /\ (lastCall.op = "create_multisig" /\ lastCall.res = "Ok") =>
          (0 < LastMultisig.threshold /\ LastMultisig.threshold <= Len(LastMultisig.owners))

\* The accounts as they are left alone by a call.
Untouched == UNCHANGED <<multisigs, transactions, attempts, completed>>

\* The step is a create_transaction or approve call that passed the account
\* validation and whose caller is not among the owners of the multisig given.
NonOwnerCall ==
    /\ lastCall'.op \in {"create_transaction", "approve"}
    /\ lastCall'.res # "AccountsError"
    /\ ~IsOwner(multisigs[lastCall'.multisig].owners, lastCall'.caller)

\* C4 as claimed: a create_transaction or approve call by a caller that is not
\* among the owners of the multisig fails with InvalidOwner, changes no account
\* and invokes nothing.
C4_NonOwnerInvalidOwner ==
    [][NonOwnerCall =>
          /\ lastCall'.res = "InvalidOwner"
          /\ lastCall'.invoked = <<>>
          /\ Untouched]_vars

\* C4 as amended: such a call fails, changes no account and invokes nothing;
\* it fails with InvalidOwner, except that a create_transaction whose three
\* vectors differ in length fails with ParamLength, whoever the proposer is.
C4_NonOwnerRejected ==
    [][NonOwnerCall =>
          /\ lastCall'.res =
                (IF lastCall'.op = "create_transaction" /\ ~lastCall'.sameLen
                 THEN "ParamLength" ELSE "InvalidOwner")
          /\ lastCall'.invoked = <<>>
          /\ Untouched]_vars

\* C4 witness: an approve call by a non-owner on a transaction of a multisig
\* that has an owner was rejected with InvalidOwner.
C4_Witness ==
    /\ lastCall.op = "approve" /\ lastCall.res = "InvalidOwner"
    /\ LastMultisig.owners # <<>>
    /\ ~IsOwner(LastMultisig.owners, lastCall.caller)

\* C5: an approve call by an owner on a transaction that has executed fails
\* with AlreadyExecuted, leaves signers and did_execute as they were (the
\* caller's bit is not set when it was not) and invokes nothing.
C5_ExecutedIsTerminal ==
    [][(/\ lastCall'.op = "approve"
        /\ lastCall'.res # "AccountsError"
        /\ transactions[lastCall'.transaction].did_execute
        /\ IsOwner(multisigs[lastCall'.multisig].owners, lastCall'.caller))
       =>
          /\ lastCall'.res = "AlreadyExecuted"
          /\ lastCall'.invoked = <<>>
          /\ Untouched]_vars

\* C5 witness: an owner whose bit is not set called approve on an executed
\* transaction and was rejected with AlreadyExecuted.
C5_Witness ==
    /\ lastCall.op = "approve" /\ lastCall.res = "AlreadyExecuted"
    /\ LastTx.did_execute
    /\ \E i \in 1..Len(LastMultisig.owners) :
          /\ LastMultisig.owners[i] = lastCall.caller
          /\ \A j \in 1..Len(LastMultisig.owners) :
                LastMultisig.owners[j] = lastCall.caller => ~LastTx.signers[j]

\* C6: a create_transaction call that returns Ok initializes exactly the
\* transaction account given, bound to the multisig given, with did_execute
\* false and with one signers entry per owner, true at the first index of the
\* proposer in owners and false at every other index.
C6_ProposalCreated ==
    [][(lastCall'.op = "create_transaction" /\ lastCall'.res = "Ok") =>
          LET t == lastCall'.transaction
              owners == multisigs[lastCall'.multisig].owners
              tx == transactions'[t]
          IN  /\ ~transactions[t].initialized
              /\ tx.initialized
              /\ \A u \in TransactionKeys \ {t} : transactions'[u] = transactions[u]
              /\ tx.multisig = lastCall'.multisig
              /\ ~tx.did_execute
              /\ Len(tx.signers) = Len(owners)
              /\ \E p \in 1..Len(owners) :
                    /\ owners[p] = lastCall'.caller
                    /\ \A j \in 1..(p - 1) : owners[j] # lastCall'.caller
                    /\ \A i \in 1..Len(owners) : tx.signers[i] = (i = p)
              /\ UNCHANGED <<multisigs, attempts, completed>>]_vars

\* C6 witness: a transaction just created by the second of two owners.
C6_Witness ==
    /\ lastCall.op = "create_transaction" /\ lastCall.res = "Ok"
    /\ Len(LastMultisig.owners) = 2
    /\ LastTx.signers = <<FALSE, TRUE>>

\* C7: a create_transaction call whose three vectors do not have one length
\* fails with ParamLength and changes no account.
C7_ParamLength ==
    [][(/\ lastCall'.op = "create_transaction"
        /\ lastCall'.res # "AccountsError"
        /\ ~lastCall'.sameLen)
       => (lastCall'.res = "ParamLength" /\ Untouched)]_vars

\* C7 witness: a create_transaction call by an owner was rejected with
\* ParamLength and the transaction account is still uninitialized.
C7_Witness ==
    /\ lastCall.op = "create_transaction" /\ lastCall.res = "ParamLength"
    /\ ~lastCall.sameLen
    /\ IsOwner(LastMultisig.owners, lastCall.caller)
    /\ ~LastTx.initialized

\* C8: monotonicity.  In every step, a transaction whose did_execute is true
\* keeps it true, and every signers entry that is true stays true.
C8_Monotonic ==
    [][\A t \in TransactionKeys :
          /\ transactions[t].did_execute => transactions'[t].did_execute
          /\ \A i \in 1..Len(transactions[t].signers) :
                transactions[t].signers[i] =>
                   (i <= Len(transactions'[t].signers) /\ transactions'[t].signers[i])]_vars

\* C8 witness: a create_transaction call on the account of an executed
\* transaction was rejected and the transaction is still executed.
C8_Witness ==
    /\ lastCall.op = "create_transaction" /\ lastCall.res = "AccountsError"
    /\ LastTx.did_execute
    /\ Cardinality(TrueBits(LastTx.signers)) = 2

\* The step is an approve call that passed the account validation, by an owner,
\* with an executor that does not fail, on a transaction that has not executed
\* and in an earlier approve call of which the executor failed.
RetryCall ==
    /\ lastCall'.op = "approve"
    /\ lastCall'.res \notin {"AccountsError", "ExecutorError"}
    /\ attempts[lastCall'.transaction] > completed[lastCall'.transaction]
    /\ ~transactions[lastCall'.transaction].did_execute
    /\ IsOwner(multisigs[lastCall'.multisig].owners, lastCall'.caller)

\* The approve call in which the executor fails: it fails with the executor's
\* error, leaves every account as it was, did_execute false.
ExecutorFailureKept ==
    lastCall'.res = "ExecutorError" =>
       /\ lastCall'.op = "approve"
       /\ lastCall'.invoked # <<>>
       /\ transactions' = transactions /\ multisigs' = multisigs
       /\ ~transactions'[lastCall'.transaction].did_execute

\* The retry executes: every instruction of the transaction is invoked and
\* did_execute is set.
RetryExecutes ==
    /\ lastCall'.res = "Ok"
    /\ Len(lastCall'.invoked) = Len(transactions[lastCall'.transaction].program_id)
    /\ transactions'[lastCall'.transaction].did_execute

C10_ApproveIdempotent ==
    [][(/\ lastCall.op = "approve" /\ lastCall.res = "Ok"
        /\ Cardinality(TrueBits(LastTx.signers)) < LastMultisig.threshold
        /\ lastCall'.op = "approve"
        /\ lastCall'.res # "AccountsError"
        /\ lastCall'.multisig = lastCall.multisig
        /\ lastCall'.transaction = lastCall.transaction
        /\ lastCall'.caller = lastCall.caller)
       =>
          /\ lastCall'.res = "Ok"
          /\ lastCall'.invoked = <<>>
          /\ ~transactions'[lastCall'.transaction].did_execute
          /\ Untouched]_vars

\* C10 witness: an owner other than the proposer approved twice in a row, both
\* calls returning Ok, with one more approval still missing.
C10_Witness ==
    /\ lastCall.op = "approve" /\ lastCall.res = "Ok" /\ lastCall.again
    /\ ~LastTx.did_execute
    /\ Cardinality(TrueBits(LastTx.signers)) < LastMultisig.threshold
    /\ \E i \in 1..Len(LastMultisig.owners) :
          LastMultisig.owners[i] = lastCall.caller /\ LastTx.signers[i]

\* C11: approvals below the threshold are deferred.  While fewer distinct
\* owners than the threshold of its multisig have proposed a transaction or
\* called approve on it, the transaction has not executed, no approve call
\* on it has reached the executor, and the last approve call an owner made
\* on it returned Ok and invoked nothing.
C11_Deferred ==
    \A t \in TransactionKeys :
       (/\ transactions[t].initialized
        /\ Cardinality(calledBy[t]) < multisigs[transactions[t].multisig].threshold)
       =>
          /\ ~transactions[t].did_execute
          /\ attempts[t] = 0
          /\ (/\ lastCall.op = "approve"
              /\ lastCall.transaction = t
              /\ lastCall.res # "AccountsError"
              /\ IsOwner(LastMultisig.owners, lastCall.caller))
             => (lastCall.res = "Ok" /\ lastCall.invoked = <<>>)

\* C11 witness: with two owners and a threshold of 2 the proposer alone has
\* called approve, twice in a row, and the transaction is still pending.
C11_Witness ==
    /\ lastCall.op = "approve" /\ lastCall.res = "Ok" /\ lastCall.again
    /\ Len(LastMultisig.owners) = 2
    /\ LastMultisig.threshold = 2
    /\ calledBy[lastCall.transaction] = {lastCall.caller}
    /\ ~LastTx.did_execute

\* A transaction of a multisig whose threshold is in 1..len(owners), and the
\* same with no key twice among the owners.
ValidThreshold(t) ==
    /\ transactions[t].initialized
    /\ 1 <= multisigs[transactions[t].multisig].threshold
    /\ multisigs[transactions[t].multisig].threshold
          <= Len(multisigs[transactions[t].multisig].owners)

DistinctOwners(t) ==
    \A i, j \in 1..Len(multisigs[transactions[t].multisig].owners) :
       i # j => multisigs[transactions[t].multisig].owners[i]
                   # multisigs[transactions[t].multisig].owners[j]

\* C12: liveness.  When every owner keeps calling approve and the executor does
\* not fail, every transaction of a multisig with 1 <= threshold <= len(owners)
\* is eventually executed.
C12_EventuallyExecuted ==
    \A t \in TransactionKeys : ValidThreshold(t) ~> transactions[t].did_execute

\* The same for the multisigs that hold no owner twice.
C12_EventuallyExecutedDistinctOwners ==
    \A t \in TransactionKeys :
       (ValidThreshold(t) /\ DistinctOwners(t)) ~> transactions[t].did_execute

\* C13: bitmap meaning.  For every transaction and every index i of the owners
\* of its multisig, signers[i] is true exactly when owners[i] proposed the
\* transaction or made an approve call on it that returned Ok.
C13_BitmapMeaning ==
    \A t \in TransactionKeys :
       transactions[t].initialized =>
          \A i \in 1..Len(multisigs[transactions[t].multisig].owners) :
             transactions[t].signers[i]
                = (multisigs[transactions[t].multisig].owners[i] \in approvedBy[t])

\* The same for the multisigs that hold no owner twice.
C13_BitmapMeaningDistinctOwners ==
    \A t \in TransactionKeys :
       (transactions[t].initialized /\ DistinctOwners(t)) =>
          \A i \in 1..Len(multisigs[transactions[t].multisig].owners) :
             transactions[t].signers[i]
                = (multisigs[transactions[t].multisig].owners[i] \in approvedBy[t])

\* C14: in every reachable state the signers vector of every transaction is as
\* long as the owners vector of the multisig the transaction references.
C14_SignersLength ==
    \A t \in TransactionKeys :
       transactions[t].initialized =>
          Len(transactions[t].signers) = Len(multisigs[transactions[t].multisig].owners)

\* C14 witness: an approve call has returned Ok on a transaction of a multisig
\* with two owners, and both signers bits are set.
C14_Witness ==
    /\ lastCall.op = "approve" /\ lastCall.res = "Ok"
    /\ Len(LastMultisig.owners) = 2
    /\ LastTx.signers = <<TRUE, TRUE>>

\* What an approve call on t by an owner of its multisig, past the account
\* validation, does: counted is the number of signers with the caller's bit set.
ApproveOrdering(t) ==
    LET tx == transactions[t]
        m == multisigs[tx.multisig]
        counted == SigCount(WithApproval(tx, m.owners, lastCall'.caller))
    IN  (/\ lastCall'.op = "approve"
         /\ lastCall'.transaction = t
         /\ lastCall'.res # "AccountsError"
         /\ IsOwner(m.owners, lastCall'.caller))
        =>
           /\ (counted >= m.threshold /\ ~tx.did_execute)
                 => attempts'[t] = attempts[t] + 1
           /\ (attempts'[t] # attempts[t] \/ lastCall'.invoked # <<>>)
                 => (counted >= m.threshold /\ ~tx.did_execute)
           /\ (counted < m.threshold)
                 => /\ lastCall'.res = "Ok"
                    /\ transactions'[t].signers = WithApproval(tx, m.owners, lastCall'.caller)
           /\ (transactions'[t].did_execute /\ ~tx.did_execute)
                 => /\ lastCall'.res = "Ok"
                    /\ Len(lastCall'.invoked) = Len(tx.program_id)
                    /\ completed'[t] = completed[t] + 1
           /\ lastCall'.res = "ExecutorError" => ~transactions'[t].did_execute

\* C15: ordering inside one approve call.  The caller's bit is counted in the
\* comparison with the threshold made by the same call; the executor is reached
\* only when that count is at least the threshold and the transaction has not
\* executed; did_execute becomes true only in a call that returned Ok after
\* invoking every instruction of the transaction; and no state has did_execute
\* true without a call that ran the whole batch.
C15_ApproveOrdering ==
    [][\A t \in TransactionKeys :
          /\ ApproveOrdering(t)
          /\ transactions'[t].did_execute => completed'[t] >= 1]_vars

\* C15 witness: with a threshold of 2, the first approve call to reach the
\* executor (so the caller's bit was the one missing) executed the transaction.
C15_Witness ==
    /\ lastCall.op = "approve" /\ lastCall.res = "Ok"
    /\ lastCall.invoked # <<>>
    /\ LastMultisig.threshold = 2
    /\ attempts[lastCall.transaction] = 1
    /\ LastTx.did_execute

\* The invocation ix carries the k-th stored step of tx: its program_id, the
\* pubkeys of its accounts and its data.
SameStep(ix, tx, k) ==
    /\ ix.program_id = tx.program_id[k]
    /\ ix.data = tx.data[k]
    /\ Len(ix.accounts) = Len(tx.accounts[k])
    /\ \A j \in 1..Len(ix.accounts) : ix.accounts[j].pubkey = tx.accounts[k][j].pubkey

\* What an approve call on t that reaches the executor invokes, the executor
\* failing the failAt-th invocation.
InvokedInOrder(t) ==
    LET tx == transactions[t]
        n == Len(tx.program_id)
        signer == ProgramAddress(tx.multisig, multisigs[tx.multisig].nonce)
    IN  (/\ lastCall'.op = "approve"
         /\ lastCall'.transaction = t
         /\ attempts'[t] # attempts[t])
        =>
           /\ Len(lastCall'.invoked) <= n
           /\ \A k \in 1..Len(lastCall'.invoked) : SameStep(lastCall'.invoked[k], tx, k)
           /\ lastCall'.res = "Ok" => Len(lastCall'.invoked) = n
           /\ \A failAt \in 0..MaxSteps :
                 Approve(tx.multisig, signer, t, lastCall'.caller, failAt)
                    => IF failAt \in 1..n
                       THEN /\ lastCall'.res = "ExecutorError"
                            /\ Len(lastCall'.invoked) = failAt
                       ELSE /\ lastCall'.res = "Ok"
                            /\ Len(lastCall'.invoked) = n

\* C16: an approve call that executes a transaction with n steps invokes the
\* executor n times, the k-th invocation carrying the k-th stored step, in the
\* stored order; when the k-th invocation fails, the call made k invocations
\* and none for a later step.
C16_InvokedInStoredOrder == [][\A t \in TransactionKeys : InvokedInOrder(t)]_vars

\* C16 witness: a transaction of two steps with different programs was executed
\* by the second approve call that reached the executor, the first one having
\* failed.
C16_Witness ==
    /\ lastCall.op = "approve" /\ lastCall.res = "Ok"
    /\ Len(lastCall.invoked) = 2
    /\ lastCall.invoked[1].program_id # lastCall.invoked[2].program_id
    /\ attempts[lastCall.transaction] = 2
    /\ completed[lastCall.transaction] = 1

\* The accounts an approve call on t hands to the executor, against the
\* accounts stored in t, and the steps stored in t after the call.
SignerMarking(t) ==
    LET tx == transactions[t]
        signer == ProgramAddress(tx.multisig, multisigs[tx.multisig].nonce)
    IN  (/\ lastCall'.op = "approve"
         /\ lastCall'.transaction = t
         /\ lastCall'.res # "AccountsError")
        =>
           /\ \A k \in 1..Len(lastCall'.invoked) :
                 /\ Len(lastCall'.invoked[k].accounts) = Len(tx.accounts[k])
                 /\ \A j \in 1..Len(tx.accounts[k]) :
                       /\ lastCall'.invoked[k].accounts[j].pubkey = tx.accounts[k][j].pubkey
                       /\ lastCall'.invoked[k].accounts[j].is_writable
                             = tx.accounts[k][j].is_writable
                       /\ lastCall'.invoked[k].accounts[j].is_signer
                             = IF tx.accounts[k][j].pubkey = signer
                               THEN TRUE
                               ELSE tx.accounts[k][j].is_signer
           /\ transactions'[t].program_id = tx.program_id
           /\ transactions'[t].accounts = tx.accounts
           /\ transactions'[t].data = tx.data

\* C17: signer marking at execution.  In the invocations of an approve call
\* every account whose pubkey is the signer address of the multisig is a
\* signer, every other account has the is_signer stored in the transaction,
\* every account has the is_writable stored in the transaction, and the
\* program_id, accounts and data stored in the transaction are unchanged.
C17_SignerMarking == [][\A t \in TransactionKeys : SignerMarking(t)]_vars

\* C17 witness: an executing approve call invoked an instruction in which the
\* multisig signer, stored as a non-signer, is a signer, next to an account
\* that is no signer, and the stored account is still a non-signer.
C17_Witness ==
    /\ lastCall.op = "approve" /\ lastCall.res = "Ok"
    /\ lastCall.invoked # <<>>
    /\ \E j, k \in 1..Len(lastCall.invoked[1].accounts) :
          /\ lastCall.invoked[1].accounts[j].pubkey
                = ProgramAddress(lastCall.multisig, LastMultisig.nonce)
          /\ lastCall.invoked[1].accounts[j].is_signer
          /\ ~LastTx.accounts[1][j].is_signer
          /\ ~lastCall.invoked[1].accounts[k].is_signer

\* What one step leaves alone: every initialized multisig; under
\* create_transaction every initialized transaction; under approve on a
\* transaction every other transaction and, of that one, the steps and the
\* multisig it references.
FrameConditions ==
    /\ \A g \in MultisigKeys :
          multisigs[g].initialized =>
             /\ multisigs'[g].owners = multisigs[g].owners
             /\ multisigs'[g].threshold = multisigs[g].threshold
             /\ multisigs'[g] = multisigs[g]
    /\ lastCall'.op = "create_transaction" =>
          /\ multisigs' = multisigs
          /\ \A t \in TransactionKeys :
                transactions[t].initialized => transactions'[t] = transactions[t]
    /\ lastCall'.op = "approve" =>
          /\ multisigs' = multisigs
          /\ \A t \in TransactionKeys :
                IF t = lastCall'.transaction
                THEN transactions'[t] =
                        [transactions[t] EXCEPT !.signers = transactions'[t].signers,
                                                !.did_execute = transactions'[t].did_execute]
                ELSE transactions'[t] = transactions[t]

\* C18: frame conditions.  No operation changes the owners or the threshold of
\* a multisig once it is created; create_transaction changes no existing
\* multisig or transaction; approve on a transaction changes at most the
\* signers and did_execute of that transaction, never its steps or its
\* multisig, never another transaction and never a multisig.
C18_FrameConditions == [][FrameConditions]_vars

\* C18 witness: with both multisigs and both transactions created, an approve
\* call has executed one transaction while the other is still pending.
C18_Witness ==
    /\ lastCall.op = "approve" /\ lastCall.res = "Ok"
    /\ LastTx.did_execute
    /\ \A g \in MultisigKeys : multisigs[g].initialized
    /\ \E t \in TransactionKeys :
          /\ t # lastCall.transaction
          /\ transactions[t].initialized
          /\ ~transactions[t].did_execute

\* An approve call on the transaction t against the multisig that t references.
CrossGroup(t) ==
    LET tx == transactions[t]
        own == multisigs[tx.multisig]
    IN  (/\ lastCall'.op = "approve"
         /\ lastCall'.transaction = t
         /\ tx.initialized)
        =>
           /\ lastCall'.multisig # tx.multisig
                 => (lastCall'.res = "AccountsError" /\ Untouched)
           /\ ~IsOwner(own.owners, lastCall'.caller)
                 => (/\ lastCall'.res \in {"AccountsError", "InvalidOwner"}
                     /\ lastCall'.invoked = <<>>
                     /\ Untouched)
           /\ (transactions'[t].did_execute /\ ~tx.did_execute)
                 => SigCount(transactions'[t].signers) >= own.threshold

\* C19: cross-group isolation.  An approve call that pairs a transaction with
\* a multisig other than the one the transaction references is rejected and
\* changes nothing; a caller that is no owner of the transaction's own
\* multisig sets no signers bit on it and does not execute it, whatever other
\* multisig it owns; and a transaction executes only with at least as many
\* signers as the threshold of its own multisig.
C19_CrossGroupIsolation == [][\A t \in TransactionKeys : CrossGroup(t)]_vars

\* C19 witness: an owner of another multisig, no owner of the transaction's
\* own, called approve on the transaction with that other multisig and was
\* rejected.
C19_Witness ==
    /\ lastCall.op = "approve" /\ lastCall.res = "AccountsError"
    /\ LastTx.initialized /\ LastMultisig.initialized
    /\ LastTx.multisig # lastCall.multisig
    /\ IsOwner(LastMultisig.owners, lastCall.caller)
    /\ ~IsOwner(multisigs[LastTx.multisig].owners, lastCall.caller)

\* What create_transaction does not do, and the only step that executes.
ProposeDoesNotExecute(t) ==
    LET own == multisigs[transactions'[t].multisig]
    IN  /\ (lastCall'.op = "create_transaction" /\ lastCall'.transaction = t)
              => /\ lastCall'.invoked = <<>>
                 /\ attempts'[t] = attempts[t]
                 /\ completed'[t] = completed[t]
                 /\ lastCall'.res = "Ok"
                       => /\ transactions'[t].initialized
                          /\ ~transactions'[t].did_execute
        /\ (transactions[t].initialized /\ ~transactions[t].did_execute)
              => /\ TrueBits(transactions[t].signers) \subseteq TrueBits(transactions'[t].signers)
                 /\ transactions'[t].did_execute
                       => /\ lastCall'.op = "approve"
                          /\ lastCall'.transaction = t
                          /\ lastCall'.res = "Ok"
                          /\ IsOwner(own.owners, lastCall'.caller)
                          /\ completed'[t] = completed[t] + 1

\* C20: create_transaction never executes.  It invokes nothing and leaves the
\* new transaction with did_execute false, also when the proposer's own signers
\* bit meets the threshold; a pending transaction keeps its signers bits and
\* turns executed only in a later approve call on it, by an owner of its
\* multisig, that returned Ok after running the batch.
C20_ProposeNeverExecutes == [][\A t \in TransactionKeys : ProposeDoesNotExecute(t)]_vars

\* C20 witness: create_transaction has just returned Ok on a multisig with a
\* threshold of 1, so the proposer's bit meets the threshold, and the
\* transaction is not executed.
C20_Witness ==
    /\ lastCall.op = "create_transaction" /\ lastCall.res = "Ok"
    /\ LastMultisig.threshold = 1
    /\ SigCount(LastTx.signers) >= LastMultisig.threshold
    /\ Len(LastTx.program_id) >= 1
    /\ ~LastTx.did_execute

\* The proposer alone has called approve on such a transaction and executed it.
C20_ProposerExecutes ==
    /\ lastCall.op = "approve" /\ lastCall.res = "Ok"
    /\ LastMultisig.threshold = 1
    /\ calledBy[lastCall.transaction] = {lastCall.caller}
    /\ LastTx.did_execute

====
